---- MODULE Spec2Model ----
(***************************************************************************)
(* A model of ssds/modeling/ssds/ssd.py: the SSD detector's assembly       *)
(* (add_extras, build_ssd, SSD.__init__) and its forward pass.             *)
(*                                                                         *)
(* Tensors are modelled by their shape and by the path of stages that      *)
(* produced them, so that "which tensor reaches which head" and "two calls *)
(* return the same thing" are questions about values.  The numeric engine  *)
(* (nn.Conv2d, Tensor.view, torch.cat) is modelled by its shape rules.     *)
(* The layer parser and the backbone factory live outside this file; they  *)
(* are modelled from their contracts.                                      *)
(***************************************************************************)
EXTENDS Integers, Sequences, FiniteSets, TLC

\* ------------------------------------------------------------------ bounds
\* Most backbone stages the base factory returns.
MaxBase == 2
\* Longest feature-layer / mbox sequence handed to build_ssd.
MaxScales == 2
\* Most stages the layer parser returns for one descriptor.
MaxSub == 2
\* Height and width of the input image.
InputSize == 8

\* Channels of the input image (docstring of forward: [batch,3,300,300]).
InputChannels == 3
\* The box-offset axis of the localization output.
LocCoords == 4
\* Kernel size and padding of every head convolution.
HeadKernel == 3
HeadPadding == 1

\* ------------------------------------------------------------- input sets
\* Values of the phase argument: the three documented ones, and "test",
\* which the docstring of forward also mentions but no branch handles.
Phases == {"train", "eval", "feature", "test"}
NumClassesSet == {2, 3}
BoxCounts == {1, 2}
Batches == {1, 2}

VARIABLES
    pc,      \* "start" before build_ssd has run, "built" after
    args,    \* the arguments build_ssd was called with
    parsed,  \* how many stages the layer parser returned for each descriptor
    net,     \* the SSD object: base, extras, loc, conf, feature_layer, num_classes
    call,    \* the arguments of the last forward call
    frame,   \* the locals of the last forward call when it ended
    ret,     \* what the last forward call returned (or that it raised)
    first    \* the first forward call made on the detector, and its result

vars == <<pc, args, parsed, net, call, frame, ret, first>>

\* ---------------------------------------------------------------- helpers
Min(a, b) == IF a < b THEN a ELSE b

SeqsUpTo(S, n) == UNION {[1..m -> S] : m \in 1..n}

RECURSIVE SumSeq(_)
SumSeq(s) == IF s = <<>> THEN 0 ELSE s[1] + SumSeq(Tail(s))

\* ------------------------------------------------------ layer descriptors
\* An entry of feature_layer[0] is an int (a backbone stage index to tap) or
\* a layer name (a new stage to build).  Both are records so that Python's
\* `k in self.feature_layer` is an equality test between like values.
Tap(k) == [tag |-> "int", idx |-> k]
NewLayer == [tag |-> "str", idx |-> 0]
Descriptors == {Tap(k) : k \in 0..(MaxBase - 1)} \cup {NewLayer}

\* in_channels = None
None == 0

\* ----------------------------------------------------------------- stages
\* The backbone factory base(): nb stages; stage k has k + 2 output channels
\* and halves the spatial size.
BaseOut(k) == k + 2
BaseStage(k) ==
    [kind |-> "base", scale |-> k, sub |-> 0, inc |-> None,
     outc |-> BaseOut(k), stride |-> 2]
base_factory(nb) == [i \in 1..nb |-> BaseStage(i - 1)]

\* Channels of the intermediate stages of a multi-stage parser result.
MidChannels(depth) == depth

\* parse_feature_layer(layer, in_channels, depth): a list of zero or more
\* stages, the last of which has `depth` output channels.  An int descriptor
\* gives no stage.  `i` (the scale) and `n` (how many stages the parser
\* returns for this descriptor) identify the stages built.
parse_feature_layer(layer, in_channels, depth, i, n) ==
    IF layer.tag = "int" THEN <<>>
    ELSE [j \in 1..n |->
            [kind |-> "extra", scale |-> i, sub |-> j,
             inc |-> IF j = 1 THEN in_channels ELSE MidChannels(depth),
             outc |-> IF j = n THEN depth ELSE MidChannels(depth),
             stride |-> IF j = n THEN 2 ELSE 1]]

\* nn.Conv2d(in_channels, out_channels, kernel_size, padding)
Conv2d(in_channels, out_channels, kernel_size, padding) ==
    [inc |-> in_channels, outc |-> out_channels,
     kernel |-> kernel_size, padding |-> padding]

\* ---------------------------------------------------------------- tensors
Tensor(n, c, h, w, path) == [n |-> n, c |-> c, h |-> h, w |-> w, path |-> path]
Label(st) == <<st.kind, st.scale, st.sub>>
Down(h, stride) == (h + stride - 1) \div stride

\* A stage applied to a tensor.  A stage built for a known input channel
\* count rejects a tensor with another one.
StageAccepts(st, x) == st.inc = None \/ st.inc = x.c
ApplyStage(st, x) ==
    Tensor(x.n, st.outc, Down(x.h, st.stride), Down(x.w, st.stride),
           Append(x.path, Label(st)))

\* A head convolution applied to a tensor: stride 1.
ConvAccepts(cv, x) ==
    /\ cv.inc = x.c
    /\ x.h + 2 * cv.padding >= cv.kernel
    /\ x.w + 2 * cv.padding >= cv.kernel
ApplyConv(cv, x) ==
    Tensor(x.n, cv.outc, x.h + 2 * cv.padding - cv.kernel + 1,
           x.w + 2 * cv.padding - cv.kernel + 1, x.path)

Numel(t) == t.n * t.c * t.h * t.w

\* t.view(n, c, -1): the trailing length is inferred, and must be whole.
ViewOk(t, n, c) == n * c > 0 /\ Numel(t) % (n * c) = 0
View(t, n, c) == [n |-> n, c |-> c, len |-> Numel(t) \div (n * c), of |-> t.path]

\* torch.cat(parts, 2): a non-empty list, equal in every other dimension.
CatOk(parts) ==
    /\ parts # <<>>
    /\ \A i \in 1..Len(parts) : parts[i].n = parts[1].n /\ parts[i].c = parts[1].c
Cat(parts) ==
    [n |-> parts[1].n, c |-> parts[1].c,
     len |-> SumSeq([i \in 1..Len(parts) |-> parts[i].len]),
     parts |-> [i \in 1..Len(parts) |-> [of |-> parts[i].of, len |-> parts[i].len]]]

NoTensor == [n |-> 0, c |-> 0, len |-> 0, parts |-> <<>>]

\* ------------------------------------------------------------- add_extras
\* A slip in add_extras: the conf head sized like the loc head.
ConfOutLoc(box, num_classes) == box * LocCoords

\* The channel counts of the two head convolutions of one scale.
LocOut(box) == box * LocCoords
ConfOut(box, num_classes) == box * num_classes

\* zip(a, b, c) stops at the shortest.
ZipLen(a, b, c) == Min(Len(a), Min(Len(b), Len(c)))

\* One pass of the loop of add_extras, from scale i on.
RECURSIVE add_extras_loop(_, _, _, _, _, _)
add_extras_loop(feature_layer, mbox, num_classes, counts, i, acc) ==
    IF i > ZipLen(feature_layer[1], feature_layer[2], mbox) THEN acc
    ELSE LET layer == feature_layer[1][i]
             depth == feature_layer[2][i]
             box == mbox[i]
             new == parse_feature_layer(layer, acc.in_channels, depth, i, counts[i])
             in_channels == depth
         IN add_extras_loop(feature_layer, mbox, num_classes, counts, i + 1,
              [extra_layers |-> acc.extra_layers \o new,
               in_channels |-> in_channels,
               loc_layers |-> Append(acc.loc_layers,
                    Conv2d(in_channels, LocOut(box), HeadKernel, HeadPadding)),
               conf_layers |-> Append(acc.conf_layers,
                    Conv2d(in_channels, ConfOut(box, num_classes),
                           HeadKernel, HeadPadding))])

add_extras(base, feature_layer, mbox, num_classes, counts) ==
    LET r == add_extras_loop(feature_layer, mbox, num_classes, counts, 1,
                 [extra_layers |-> <<>>, loc_layers |-> <<>>,
                  conf_layers |-> <<>>, in_channels |-> None])
    IN [base |-> base, extras |-> r.extra_layers,
        head |-> <<r.loc_layers, r.conf_layers>>]

\* SSD.__init__
SSD(base, extras, head, feature_layer, num_classes) ==
    [num_classes |-> num_classes, base |-> base, extras |-> extras,
     loc |-> head[1], conf |-> head[2], feature_layer |-> feature_layer[1]]

build_ssd(nb, feature_layer, mbox, num_classes, counts) ==
    LET r == add_extras(base_factory(nb), feature_layer, mbox, num_classes, counts)
    IN SSD(r.base, r.extras, r.head, feature_layer, num_classes)

\* ---------------------------------------------------------------- forward
\* A slip in forward: the sources list kept from the call before (a list
\* held on the object, or a mutable default) instead of a new one.
StaleList == frame.sources

\* sources, loc, conf = [list() for _ in range(3)]: what `sources` starts
\* as (loc and conf start empty in the same statement).
NewList == <<>>

\* k in self.feature_layer
Tapped(k, feature_layer) ==
    \E i \in 1..Len(feature_layer) : feature_layer[i] = Tap(k)

\* A slip in the base loop: the tap test off by one stage.
CacheBaseNext(sources, x, k, feature_layer) ==
    IF Tapped(k + 1, feature_layer) THEN Append(sources, x) ELSE sources

\* What the base loop does with the output of stage k.
CacheBase(sources, x, k, feature_layer) ==
    IF Tapped(k, feature_layer) THEN Append(sources, x) ELSE sources

\* A slip in the extras loop: only every second extra stage cached.
CacheExtraOdd(sources, x, k) == IF k % 2 = 1 THEN Append(sources, x) ELSE sources

\* What the extras loop does with the output of extra stage k.
CacheExtra(sources, x, k) == Append(sources, x)

\* for k in range(len(self.base)): the locals f after stages k.. have run.
RECURSIVE base_loop(_, _, _)
base_loop(self, f, k) ==
    IF k >= Len(self.base) THEN f
    ELSE LET x == ApplyStage(self.base[k + 1], f.x)
         IN base_loop(self,
              [f EXCEPT !.x = x,
                        !.applied = Append(@, Label(self.base[k + 1])),
                        !.sources = CacheBase(@, x, k, self.feature_layer)],
              k + 1)

\* for k, v in enumerate(self.extras); a stage that rejects x raises.
RECURSIVE extras_loop(_, _, _)
extras_loop(self, f, k) ==
    IF k >= Len(self.extras) \/ f.raised THEN f
    ELSE LET v == self.extras[k + 1]
         IN IF ~StageAccepts(v, f.x) THEN [f EXCEPT !.raised = TRUE]
            ELSE LET x == ApplyStage(v, f.x)
                 IN extras_loop(self,
                      [f EXCEPT !.x = x,
                                !.applied = Append(@, Label(v)),
                                !.sources = CacheExtra(@, x, k)],
                      k + 1)

\* A slip in the phase test: a misspelt phase name, so no call returns early.
ReturnsSourcesTypo(phase) == phase = "features"

\* if phase == 'feature': return sources
ReturnsSources(phase) == phase = "feature"

\* A slip in the reshape of the loc output: view(batch, -1).
LocViewFlat(t, x) == View(t, x.n, 1)

\* The reshapes of the two head outputs.
LocViewOk(t, x) == ViewOk(t, x.n, LocCoords)
LocView(t, x) == View(t, x.n, LocCoords)
ConfViewOk(t, x, num_classes) == ViewOk(t, x.n, num_classes)
ConfView(t, x, num_classes) == View(t, x.n, num_classes)

\* for (x, l, c) in zip(sources, self.loc, self.conf), from triple i on.
RECURSIVE head_loop(_, _, _)
head_loop(self, f, i) ==
    IF i > ZipLen(f.sources, self.loc, self.conf) \/ f.raised THEN f
    ELSE LET x == f.sources[i]
             l == self.loc[i]
             c == self.conf[i]
         IN IF ~ConvAccepts(l, x) \/ ~LocViewOk(ApplyConv(l, x), x)
            THEN [f EXCEPT !.x = x, !.heads = @ + 1, !.raised = TRUE]
            ELSE IF ~ConvAccepts(c, x)
                      \/ ~ConfViewOk(ApplyConv(c, x), x, self.num_classes)
            THEN [f EXCEPT !.x = x, !.heads = @ + 2, !.raised = TRUE,
                           !.loc = Append(@, LocView(ApplyConv(l, x), x))]
            ELSE head_loop(self,
                   [f EXCEPT !.x = x, !.heads = @ + 2,
                       !.loc = Append(@, LocView(ApplyConv(l, x), x)),
                       !.conf = Append(@, ConfView(ApplyConv(c, x), x,
                                                   self.num_classes))],
                   i + 1)

Raised == [kind |-> "raised", sources |-> <<>>, loc |-> NoTensor, conf |-> NoTensor]
NoReturn == [kind |-> "none", sources |-> <<>>, loc |-> NoTensor, conf |-> NoTensor]

\* SSD.forward(x, phase): the locals when the call ends, and what it
\* returns.
forward(self, x, phase) ==
    LET f0 == [x |-> x, sources |-> NewList, loc |-> <<>>, conf |-> <<>>,
               applied |-> <<>>, heads |-> 0, raised |-> FALSE]
        f1 == extras_loop(self, base_loop(self, f0, 0), 0)
        f2 == head_loop(self, f1, 1)
    IN IF f1.raised THEN [frame |-> f1, ret |-> Raised]
       ELSE IF ReturnsSources(phase)
       THEN [frame |-> f1,
             ret |-> [kind |-> "feature", sources |-> f1.sources,
                      loc |-> NoTensor, conf |-> NoTensor]]
       ELSE IF f2.raised \/ ~CatOk(f2.loc) \/ ~CatOk(f2.conf)
       THEN [frame |-> [f2 EXCEPT !.raised = TRUE], ret |-> Raised]
       ELSE [frame |-> f2,
             ret |-> [kind |-> "pair", sources |-> <<>>,
                      loc |-> Cat(f2.loc), conf |-> Cat(f2.conf)]]

\* ---------------------------------------------------------- state machine
NoFrame ==
    [x |-> Tensor(0, 0, 0, 0, <<>>), sources |-> <<>>, loc |-> <<>>,
     conf |-> <<>>, applied |-> <<>>, heads |-> 0, raised |-> FALSE]
NoCall == [x |-> Tensor(0, 0, 0, 0, <<>>), phase |-> "none"]
NoNet ==
    [num_classes |-> 0, base |-> <<>>, extras |-> <<>>, loc |-> <<>>,
     conf |-> <<>>, feature_layer |-> <<>>]
NoArgs == [nb |-> 0, feature_layer |-> <<<<>>, <<>>>>, mbox |-> <<>>, num_classes |-> 0]

Init ==
    /\ pc = "start"
    /\ args = NoArgs
    /\ parsed = <<>>
    /\ net = NoNet
    /\ call = NoCall
    /\ frame = NoFrame
    /\ ret = NoReturn
    /\ first = [call |-> NoCall, ret |-> NoReturn, net |-> NoNet, between |-> FALSE]

\* What the parser returns depends on the layer name.  One layer name is
\* modelled, so one count n stands for the parser: it returns n stages for
\* every descriptor that names a layer (and that the builder reaches).
CountsFor(layers, zl, n) ==
    [i \in 1..Len(layers) |->
        IF layers[i].tag = "int" \/ i > zl THEN 0 ELSE n]

\* The depth sequence that goes with a descriptor sequence: where descriptor
\* i taps backbone stage k, depth i is that stage's channel count; the depth
\* of a new layer (or of a tap beyond the backbone) is 2.
DepthsFor(nb, layers) ==
    [i \in 1..Len(layers) |->
        IF layers[i].tag = "int" /\ layers[i].idx < nb
        THEN BaseOut(layers[i].idx) ELSE 2]

\* The box-count sequences of length N tried: every one over `boxes` that
\* does not decrease from one scale to the next.
MboxOf(N, boxes) ==
    {m \in [1..N -> boxes] : \A i \in 1..(N - 1) : m[i] <= m[i + 1]}

\* The (depths, mbox) pairs tried with a descriptor sequence of length N:
\* both of length N; or, when `mismatch`, with one box count for every
\* scale, one of the two a scale short or mbox a scale long.
TailArgs(nb, layers, boxes, mismatch) ==
    LET N == Len(layers)
        full == DepthsFor(nb, layers)
        short == IF mismatch /\ N > 1 THEN {N - 1} ELSE {}
        long == IF mismatch /\ N < MaxScales THEN {N + 1} ELSE {}
    IN {<<full, m>> : m \in MboxOf(N, boxes)}
       \cup {<<full, [i \in 1..k |-> b]>> : k \in short \cup long, b \in boxes}
       \cup {<<SubSeq(full, 1, k), [i \in 1..N |-> b]>> : k \in short, b \in boxes}

\* build_ssd(base, feature_layer, mbox, num_classes), with mbox drawn over
\* `boxes` and num_classes from `classes`.
BuildWith(boxes, classes, mismatch) ==
    /\ pc = "start"
    /\ \E nb \in 1..MaxBase, layers \in SeqsUpTo(Descriptors, MaxScales),
          num_classes \in classes, n \in 0..MaxSub :
         \E t \in TailArgs(nb, layers, boxes, mismatch) :
           LET counts == CountsFor(layers, ZipLen(layers, t[1], t[2]), n)
           IN /\ \/ n = 0
                 \/ \E i \in 1..Len(layers) : counts[i] = n
              /\ args' = [nb |-> nb, feature_layer |-> <<layers, t[1]>>,
                          mbox |-> t[2], num_classes |-> num_classes]
              /\ parsed' = counts
              /\ net' = build_ssd(nb, <<layers, t[1]>>, t[2], num_classes, counts)
    /\ pc' = "built"
    /\ UNCHANGED <<call, frame, ret, first>>

Build == BuildWith(BoxCounts, NumClassesSet, TRUE)

Inputs == {Tensor(b, InputChannels, InputSize, InputSize, <<>>) : b \in Batches}

\* net.forward(x, phase); `track` says whether the first call is recorded.
Call(track) ==
    /\ pc = "built"
    /\ \E x \in Inputs, phase \in Phases :
         LET r == forward(net, x, phase)
             c == [x |-> x, phase |-> phase]
         IN /\ call' = c
            /\ frame' = r.frame
            /\ ret' = r.ret
            /\ first' = IF ~track THEN first
                        ELSE IF first.call = NoCall
                        THEN [call |-> c, ret |-> r.ret, net |-> net,
                              between |-> FALSE]
                        ELSE [first EXCEPT !.between = @ \/ c # first.call]
    /\ UNCHANGED <<pc, args, parsed, net>>

Forward == Call(FALSE)

Next == Build \/ Forward

Spec == Init /\ [][Next]_vars

\* The same detector with the first call recorded, to compare later calls
\* with it; the three sequences have one length, and the box counts and
\* num_classes take one value each.
BuildOnes == BuildWith({1}, {3}, FALSE)
ForwardTracked == Call(TRUE)
NextRepeat == BuildOnes \/ ForwardTracked
SpecRepeat == Init /\ [][NextRepeat]_vars

\* ------------------------------------------------------- the build's inputs
Layers == args.feature_layer[1]
Depths == args.feature_layer[2]
IsTap(i) == Layers[i].tag = "int"
NumTaps == Cardinality({i \in 1..Len(Layers) : IsTap(i)})

\* The three sequences handed to the builder have one length.
LengthsEqual == Len(Layers) = Len(Depths) /\ Len(Depths) = Len(args.mbox)

\* The descriptors are those of the design: the taps come first, name
\* backbone stages that exist, in increasing order; when new layers follow
\* taps, the last tap is the backbone's last stage, so that the channel
\* count handed to the parser is the one the first new stage receives.
TapsWellFormed ==
    /\ \A i \in 1..Len(Layers) : IsTap(i) => i <= NumTaps /\ Layers[i].idx < args.nb
    /\ \A i \in 1..(NumTaps - 1) : Layers[i].idx < Layers[i + 1].idx
    /\ (NumTaps > 0 /\ NumTaps < Len(Layers)) => Layers[NumTaps].idx = args.nb - 1

\* A valid configuration: equal lengths, well-formed taps, the depth of
\* a tapped scale is the tapped stage's channel count, positive box counts,
\* at least one class, and every layer name one the parser turns into
\* exactly one stage.
ValidConfig ==
    /\ pc = "built"
    /\ LengthsEqual
    /\ TapsWellFormed
    /\ \A i \in 1..Len(Layers) :
         /\ IsTap(i) => Depths[i] = BaseOut(Layers[i].idx)
         /\ ~IsTap(i) => parsed[i] = 1
         /\ args.mbox[i] > 0
    /\ args.num_classes >= 1

Called == call # NoCall
Returned == ret.kind \in {"feature", "pair"}

\* 2^m, and the input's side after m halvings, in closed form.
RECURSIVE Pow2(_)
Pow2(m) == IF m = 0 THEN 1 ELSE 2 * Pow2(m - 1)
SideAfter(m) == (InputSize + Pow2(m) - 1) \div Pow2(m)

\* How many stages lie before the feature map of scale i in a valid
\* configuration: stages 0..k of the backbone for a tap of stage k, the whole
\* backbone and one stage per new layer up to i otherwise.
StagesBefore(i) ==
    IF IsTap(i) THEN Layers[i].idx + 1 ELSE args.nb + (i - NumTaps)
TotalAnchors ==
    SumSeq([i \in 1..Len(Layers) |->
              args.mbox[i] * SideAfter(StagesBefore(i)) * SideAfter(StagesBefore(i))])

C2_SourceCount ==
    (ValidConfig /\ call.phase = "feature") =>
        /\ ret.kind = "feature"
        /\ Len(ret.sources) = Len(args.mbox)
        /\ NumTaps + Len(net.extras) = Len(args.mbox)
        /\ Len(net.loc) = Len(args.mbox)
        /\ Len(net.conf) = Len(args.mbox)

\* A valid detector with a tap and a new layer has answered a "feature" call.
C2_Witness ==
    /\ ValidConfig /\ call.phase = "feature"
    /\ NumTaps = 1 /\ Len(net.extras) = 1
    /\ Len(ret.sources) = 2

\* The stage whose output is the feature map of scale i: the tapped backbone
\* stage, or the last of the stages the parser built for the scale.
FeatureStage(i) ==
    IF IsTap(i) THEN <<"base", Layers[i].idx, 0>> ELSE <<"extra", i, parsed[i]>>

\* C3: whatever the parser returned (no stage, one, or several for a
\* scale), when forward has collected its sources, sources[i] is the
\* feature map of scale i, the tensor loc[i] and conf[i] were built for.
C3_HeadsAligned ==
    (pc = "built" /\ LengthsEqual /\ TapsWellFormed /\ Called /\ Returned) =>
        \A i \in 1..Len(Layers) :
            /\ i <= Len(frame.sources)
            /\ frame.sources[i].path # <<>>
            /\ frame.sources[i].path[Len(frame.sources[i].path)] = FeatureStage(i)

\* C4: a build whose three sequences differ in length raises a
\* configuration error before anything is constructed: no detector exists.
C4_MismatchRejected ==
    (args # NoArgs /\ ~LengthsEqual) => (pc # "built" /\ net = NoNet)

\* C5: a forward call with a phase other than "train", "eval" or "feature"
\* raises without applying any head.
C5_UnknownPhaseRaises ==
    (Called /\ call.phase \notin {"train", "eval", "feature"}) =>
        (ret.kind = "raised" /\ frame.heads = 0)

\* The labels of all the detector's stages, in the order forward runs them.
AllStages ==
    [i \in 1..(Len(net.base) + Len(net.extras)) |->
        IF i <= Len(net.base) THEN Label(net.base[i])
        ELSE Label(net.extras[i - Len(net.base)])]

\* C6: a forward call in "feature" mode applies no loc or conf
\* convolution; when it returns, every backbone stage and every extra
\* stage has run and the value returned is the sources list.
C6_FeatureSkipsHeads ==
    call.phase = "feature" =>
        /\ frame.heads = 0 /\ frame.loc = <<>> /\ frame.conf = <<>>
        /\ ret.kind \in {"feature", "raised"}
        /\ ret.kind = "feature" =>
             (ret.sources = frame.sources /\ frame.applied = AllStages)

\* A detector with heads and an extra stage has answered a "feature" call.
C6_Witness ==
    /\ call.phase = "feature" /\ ret.kind = "feature"
    /\ Len(net.loc) = 2 /\ Len(net.extras) >= 1 /\ Len(ret.sources) = 2

C8_HeadChannels ==
    (pc = "built" /\ LengthsEqual) =>
        /\ Len(net.loc) = Len(Layers) /\ Len(net.conf) = Len(Layers)
        /\ \A i \in 1..Len(Layers) :
             /\ net.loc[i] = [inc |-> Depths[i], outc |-> args.mbox[i] * 4,
                              kernel |-> 3, padding |-> 1]
             /\ net.conf[i] = [inc |-> Depths[i],
                               outc |-> args.mbox[i] * args.num_classes,
                               kernel |-> 3, padding |-> 1]
        /\ net.base = base_factory(args.nb)

\* A detector of two scales with different depths and box counts is built.
C8_Witness ==
    /\ pc = "built" /\ LengthsEqual /\ Len(Layers) = 2
    /\ Depths[1] # Depths[2] /\ args.mbox[1] # args.mbox[2]
    /\ args.num_classes = 3

\* C9: whenever forward returns (loc, conf), there were as many sources as
\* loc heads and as conf heads, and each source went through one of each.
C9_NoPartialResult ==
    ret.kind = "pair" =>
        /\ Len(frame.sources) = Len(net.loc)
        /\ Len(frame.sources) = Len(net.conf)
        /\ frame.heads = 2 * Len(frame.sources)

\* The backbone stage indices whose output forward caches.
CachedTaps == {k \in 0..(Len(net.base) - 1) : Tap(k) \in {Layers[i] : i \in 1..Len(Layers)}}

\* C10: in every forward call that ran all its stages, the stages ran one
\* after the other, backbone then extras; the sources are the outputs of the
\* tapped backbone stages, once each, in increasing stage order, followed by
\* the output of every extra stage in order; each source is the output of
\* the chain of stages up to its own.
C10_SourceOrder ==
    (Called /\ Len(frame.applied) = Len(AllStages)) =>
        /\ frame.applied = AllStages
        /\ Len(frame.sources) = Cardinality(CachedTaps) + Len(net.extras)
        /\ \A i \in 1..Len(frame.sources) :
             LET m == Len(frame.sources[i].path)
             IN /\ frame.sources[i].path = SubSeq(AllStages, 1, m)
                /\ IF i <= Cardinality(CachedTaps)
                   THEN /\ (m - 1) \in CachedTaps
                        /\ Cardinality({k \in CachedTaps : k < m - 1}) = i - 1
                   ELSE m = Len(net.base) + (i - Cardinality(CachedTaps))

\* A call on a detector with two backbone stages, the first one tapped, and
\* two extra stages has collected three sources.
C10_Witness ==
    /\ Called /\ Len(frame.applied) = 4 /\ Len(net.base) = 2
    /\ CachedTaps = {0} /\ Len(net.extras) = 2
    /\ Len(frame.sources) = 3

====
